---- MODULE Spec2Model ----
(***************************************************************************)
(* Model of FootfallCounter (src/footfall_counter.py): the per-track       *)
(* position history, the set of counted track ids and the entry / exit     *)
(* counters, driven by update_counts(detections, frame_height).            *)
(***************************************************************************)
EXTENDS Integers, Sequences, FiniteSets, TLC

\* ---------------------------------------------------------------- bounds
\* update_counts calls explored with at most one detection per call
MaxCalls == 4
\* update_counts calls explored with several detections per call
MaxFrames == 2
\* observations per track explored along the scripted long walk
MaxObs == 35

\* ------------------------------------------------------ program constants
TRACK_HISTORY_LENGTH == 30

\* ---------------------------------------------------------- input domains
\* track ids handed out by the tracker
TrackIds == {1, 2}
\* centroid coordinates (x is never read by update_counts)
Xs == {7}
Ys == 0 .. 2
Centroids == Xs \X Ys
\* frame heights passed to update_counts
Heights == {0, 3}
\* line_position values the constructor accepts (it validates nothing), as
\* exact binary fractions num/den so that the float product is exact
LINE_POSITION == [num |-> 1, den |-> 2]
LinePositions ==
    { [num |-> -1, den |-> 4], LINE_POSITION, [num |-> 3, den |-> 4],
      [num |-> 5, den |-> 4] }
\* a detection dict: well formed, or with the 'centroid' key missing
Detections ==
    [track_id : TrackIds, centroid : Centroids] \cup [track_id : TrackIds]

RECURSIVE SeqsUpTo(_, _)
SeqsUpTo(S, n) ==
    IF n = 0 THEN {<<>>}
    ELSE LET shorter == SeqsUpTo(S, n - 1)
         IN  shorter \cup {Append(s, e) : s \in {t \in shorter : Len(t) = n - 1}, e \in S}

\* the detections of one call: none or one; up to two
SingleFrames == SeqsUpTo(Detections, 1)
CrowdFrames == SeqsUpTo(Detections, 2)

\* ------------------------------------------------------------------ state
VARIABLES
    line_position,    \* self.line_position
    track_history,    \* self.track_history: track id -> list of centroids
    counted_ids,      \* self.counted_ids
    entry_count,      \* self.entry_count
    exit_count,       \* self.exit_count
    counting_line_y,  \* local counting_line_y of the latest call
    frame_height,     \* argument frame_height of the latest call
    detections,       \* argument detections of the latest call
    raised,           \* exception that ended the latest call, or "none"
    frame_count,      \* number of update_counts calls made
    events,           \* observations processed by the latest call, in order
    reordered,        \* self, had the latest call met its detections reversed
    log,              \* every centroid ever recorded per track, in order
    contrib,          \* per track: increments of entry_count + exit_count
    crossed           \* per track: some recorded move satisfied Entry or Exit

vars == <<line_position, track_history, counted_ids, entry_count, exit_count,
          counting_line_y, frame_height, detections, raised, frame_count, events,
          reordered, log,
          contrib, crossed>>

\* ----------------------------------------------------------- the code
\* int(x) for the exact quotient n/d, d > 0: truncation toward zero
IntTrunc(n, d) == IF n >= 0 THEN n \div d ELSE -((-n) \div d)

\* variant: the product rounded to the nearest integer, round(...)
CountingLineY_Rounded(h, lp) ==
    (2 * h * lp.num + lp.den) \div (2 * lp.den)

\* counting_line_y = int(frame_height * self.line_position)
CountingLineY(h, lp) == IntTrunc(h * lp.num, lp.den)

\* variant: pop() in place of pop(0), dropping the newest position
RecordCentroid_PopsNewest(hist, centroid) ==
    LET appended == Append(hist, centroid)
    IN  IF Len(appended) > TRACK_HISTORY_LENGTH
        THEN SubSeq(appended, 1, Len(appended) - 1)
        ELSE appended

\* self.track_history[track_id].append(centroid); pop(0) when too long
RecordCentroid(hist, centroid) ==
    LET appended == Append(hist, centroid)
    IN  IF Len(appended) > TRACK_HISTORY_LENGTH THEN Tail(appended) ELSE appended

\* variant: the membership test left out
ShouldCheck_IgnoresCounted(hist, track_id, counted) == Len(hist) >= 2

\* len(history) >= 2 and track_id not in self.counted_ids
ShouldCheck(hist, track_id, counted) == Len(hist) >= 2 /\ track_id \notin counted

\* variant: curr_y > counting_line_y
CrossedDown_Strict(prev_y, curr_y, line_y) == prev_y < line_y /\ curr_y > line_y

\* prev_y < counting_line_y and curr_y >= counting_line_y
CrossedDown(prev_y, curr_y, line_y) == prev_y < line_y /\ curr_y >= line_y

\* variant: curr_y < counting_line_y
CrossedUp_Strict(prev_y, curr_y, line_y) == prev_y > line_y /\ curr_y < line_y

\* prev_y > counting_line_y and curr_y <= counting_line_y
CrossedUp(prev_y, curr_y, line_y) == prev_y > line_y /\ curr_y <= line_y

\* variant: an exit takes one off entry_count, keeping the occupancy there
Counted_ExitUndoesEntry(c, track_id, hist, line_y) ==
    IF Len(hist) >= 2 /\ track_id \notin c.counted_ids
    THEN LET prev_y == hist[Len(hist) - 1][2]
             curr_y == hist[Len(hist)][2]
         IN  IF prev_y < line_y /\ curr_y >= line_y
             THEN [c EXCEPT !.entry_count = @ + 1,
                            !.counted_ids = @ \cup {track_id}]
             ELSE IF prev_y > line_y /\ curr_y <= line_y
             THEN [c EXCEPT !.entry_count = @ - 1,
                            !.exit_count = @ + 1,
                            !.counted_ids = @ \cup {track_id}]
             ELSE c
    ELSE c

\* variant: the entry branch without self.counted_ids.add(track_id)
Counted_EntryNotRemembered(c, track_id, hist, line_y) ==
    IF Len(hist) >= 2 /\ track_id \notin c.counted_ids
    THEN LET prev_y == hist[Len(hist) - 1][2]
             curr_y == hist[Len(hist)][2]
         IN  IF prev_y < line_y /\ curr_y >= line_y
             THEN [c EXCEPT !.entry_count = @ + 1]
             ELSE IF prev_y > line_y /\ curr_y <= line_y
             THEN [c EXCEPT !.exit_count = @ + 1,
                            !.counted_ids = @ \cup {track_id}]
             ELSE c
    ELSE c

\* the counters after the crossing check of one detection
Counted(c, track_id, hist, line_y) ==
    IF ShouldCheck(hist, track_id, c.counted_ids)
    THEN LET prev_y == hist[Len(hist) - 1][2]
             curr_y == hist[Len(hist)][2]
         IN  IF CrossedDown(prev_y, curr_y, line_y)
             THEN [c EXCEPT !.entry_count = @ + 1,
                            !.counted_ids = @ \cup {track_id}]
             ELSE IF CrossedUp(prev_y, curr_y, line_y)
             THEN [c EXCEPT !.exit_count = @ + 1,
                            !.counted_ids = @ \cup {track_id}]
             ELSE c
    ELSE c

\* one iteration of the for loop over a well-formed detection
LoopBody(c, detection, line_y) ==
    LET track_id == detection.track_id
        hist == RecordCentroid(c.track_history[track_id], detection.centroid)
        stored == [c EXCEPT !.track_history[track_id] = hist]
    IN  Counted(stored, track_id, hist, line_y)

\* detection['centroid'] raises KeyError when the key is missing
WellFormed(detection) == "centroid" \in DOMAIN detection

\* what one processed observation did, for the record of the latest call
Event(c, c2, detection, line_y) ==
    [ track_id    |-> detection.track_id,
      centroid    |-> detection.centroid,
      was_counted |-> detection.track_id \in c.counted_ids,
      hist        |-> c2.track_history[detection.track_id],
      line_y      |-> line_y,
      d_entry     |-> c2.entry_count - c.entry_count,
      d_exit      |-> c2.exit_count - c.exit_count,
      untouched   |-> \A t \in TrackIds \ {detection.track_id} :
                          /\ c2.track_history[t] = c.track_history[t]
                          /\ (t \in c2.counted_ids) = (t \in c.counted_ids) ]

\* the for loop: detections in order, ended by the first exception
RECURSIVE Loop(_, _, _)
Loop(run, dets, line_y) ==
    IF dets = <<>> THEN run
    ELSE LET detection == Head(dets)
         IN  IF ~WellFormed(detection)
             THEN [run EXCEPT !.raised = "KeyError"]
             ELSE LET c2 == LoopBody(run.c, detection, line_y)
                  IN  Loop([run EXCEPT !.c = c2,
                                       !.events = Append(@, Event(run.c, c2, detection, line_y))],
                           Tail(dets), line_y)

Self == [ track_history |-> track_history, counted_ids |-> counted_ids,
          entry_count |-> entry_count, exit_count |-> exit_count ]

RunUpdate(c, dets, h, lp) ==
    Loop([c |-> c, events |-> <<>>, raised |-> "none"], dets,
         CountingLineY(h, lp))

\* ------------------------------------------------- history of the run
\* the same detections, listed in the opposite order
Reverse(dets) == [i \in 1 .. Len(dets) |-> dets[Len(dets) + 1 - i]]

\* the Entry / Exit conditions of the crossing rule, on the recorded log
RuleEntry(prev_y, curr_y, line_y) == prev_y < line_y /\ curr_y >= line_y
RuleExit(prev_y, curr_y, line_y) == prev_y > line_y /\ curr_y <= line_y

RECURSIVE LogAfter(_, _)
LogAfter(lg, evs) ==
    IF evs = <<>> THEN lg
    ELSE LogAfter([lg EXCEPT ![Head(evs).track_id] = Append(@, Head(evs).centroid)],
                  Tail(evs))

RECURSIVE ContribAfter(_, _)
ContribAfter(cb, evs) ==
    IF evs = <<>> THEN cb
    ELSE ContribAfter([cb EXCEPT ![Head(evs).track_id] =
                                     @ + Head(evs).d_entry + Head(evs).d_exit],
                      Tail(evs))

RECURSIVE CrossedAfter(_, _, _)
CrossedAfter(cr, lg, evs) ==
    IF evs = <<>> THEN cr
    ELSE LET e == Head(evs)
             old == lg[e.track_id]
             hit == /\ old # <<>>
                    /\ \/ RuleEntry(old[Len(old)][2], e.centroid[2], e.line_y)
                       \/ RuleExit(old[Len(old)][2], e.centroid[2], e.line_y)
         IN  CrossedAfter([cr EXCEPT ![e.track_id] = @ \/ hit],
                          [lg EXCEPT ![e.track_id] = Append(@, e.centroid)],
                          Tail(evs))

\* ---------------------------------------------------------------- actions
\* FootfallCounter.__init__(line_position)
Init ==
    /\ line_position \in LinePositions
    /\ track_history = [t \in TrackIds |-> <<>>]
    /\ counted_ids = {}
    /\ entry_count = 0
    /\ exit_count = 0
    /\ counting_line_y = 0
    /\ frame_height = 0
    /\ detections = <<>>
    /\ raised = "none"
    /\ frame_count = 0
    /\ events = <<>>
    /\ reordered = Self
    /\ log = [t \in TrackIds |-> <<>>]
    /\ contrib = [t \in TrackIds |-> 0]
    /\ crossed = [t \in TrackIds |-> FALSE]

Apply(dets, h) ==
    LET run == RunUpdate(Self, dets, h, line_position)
    IN  /\ track_history' = run.c.track_history
        /\ counted_ids' = run.c.counted_ids
        /\ entry_count' = run.c.entry_count
        /\ exit_count' = run.c.exit_count
        /\ counting_line_y' = CountingLineY(h, line_position)
        /\ frame_height' = h
        /\ detections' = dets
        /\ raised' = run.raised
        /\ frame_count' = frame_count + 1
        /\ events' = run.events
        /\ reordered' = RunUpdate(Self, Reverse(dets), h, line_position).c
        /\ log' = LogAfter(log, run.events)
        /\ contrib' = ContribAfter(contrib, run.events)
        /\ crossed' = CrossedAfter(crossed, log, run.events)
        /\ UNCHANGED line_position

\* update_counts(detections, frame_height), at most one detection
UpdateCounts ==
    /\ frame_count < MaxCalls
    /\ \E dets \in SingleFrames, h \in Heights : Apply(dets, h)

\* update_counts(detections, frame_height), several detections
UpdateCountsCrowd ==
    /\ frame_count < MaxFrames
    /\ \E dets \in CrowdFrames, h \in Heights : Apply(dets, h)

Next == UpdateCounts

Spec == Init /\ [][Next]_vars

\* counter = FootfallCounter(line_position=LINE_POSITION)
InitDefault == Init /\ line_position = LINE_POSITION

\* a tracked person walking down the frame again and again: the n-th
\* observation of a track, tagged with n as its x coordinate
Walk(track_id, n) == <<n, (n + track_id - 1) % Cardinality(Ys)>>

\* the tracks seen in one frame of the walk, in the tracker's order
WalkFrames == {<<1>>, <<2>>, <<1, 2>>, <<2, 1>>}

\* the video of the walk keeps one resolution
WalkHeights == {3}

\* update_counts(detections, frame_height) along the walk
UpdateCountsWalk ==
    \E ids \in WalkFrames, h \in WalkHeights :
        /\ \A i \in 1 .. Len(ids) : Len(log[ids[i]]) < MaxObs
        /\ Apply([i \in 1 .. Len(ids) |->
                     [track_id |-> ids[i], centroid |-> Walk(ids[i], Len(log[ids[i]]))]],
                 h)

NextFrames == UpdateCountsCrowd

SpecFrames == InitDefault /\ [][NextFrames]_vars

NextWalk == UpdateCountsWalk

SpecWalk == InitDefault /\ [][NextWalk]_vars

\* ------------------------------------------------------------ properties
\* the crossing rule: detect(history, lineY) -> None, Entry or Exit
Detect(hist, line_y) ==
    IF Len(hist) < 2 THEN "None"
    ELSE IF RuleEntry(hist[Len(hist) - 1][2], hist[Len(hist)][2], line_y) THEN "Entry"
    ELSE IF RuleExit(hist[Len(hist) - 1][2], hist[Len(hist)][2], line_y) THEN "Exit"
    ELSE "None"

\* what an observation did to the counters
Outcome(e) ==
    IF e.d_entry = 1 /\ e.d_exit = 0 THEN "Entry"
    ELSE IF e.d_entry = 0 /\ e.d_exit = 1 THEN "Exit"
    ELSE IF e.d_entry = 0 /\ e.d_exit = 0 THEN "None"
    ELSE "Other"

EventsOfLatestCall == {events[i] : i \in 1 .. Len(events)}

LastN(s, k) == SubSeq(s, Len(s) - k + 1, Len(s))
Min(a, b) == IF a < b THEN a ELSE b

InOpenUnit(lp) == 0 < lp.num /\ lp.num < lp.den

\* the nearest integer to n/d (d > 0), a tie going to the even neighbour
RoundNearest(n, d) ==
    LET q == n \div d
        r == n % d
    IN  IF 2 * r < d THEN q
        ELSE IF 2 * r > d THEN q + 1
        ELSE IF q % 2 = 0 THEN q ELSE q + 1

\* C1: at-most-once counting. Over the whole run the increments of
\* entry_count + exit_count attributable to any track id number 0 or 1, and
\* an observation of a track already in counted_ids changes neither counter.
C1_AtMostOnce ==
    /\ \A t \in TrackIds : contrib[t] \in {0, 1}
    /\ \A e \in EventsOfLatestCall : e.was_counted => e.d_entry = 0 /\ e.d_exit = 0

\* a counted track is observed again making a move that satisfies the rule
C1_Witness ==
    \E e \in EventsOfLatestCall :
        /\ e.was_counted
        /\ Len(log[e.track_id]) >= 3
        /\ Detect(e.hist, e.line_y) # "None"

\* C2: monotonicity. entry_count and exit_count start at 0, are never
\* negative, and no step of the run decreases either of them.
C2_Monotonic ==
    /\ entry_count = 0 /\ exit_count = 0
    /\ [](entry_count >= 0 /\ exit_count >= 0)
    /\ [][entry_count' >= entry_count /\ exit_count' >= exit_count]_vars

\* both counters have moved
C2_Witness == entry_count >= 1 /\ exit_count >= 1

\* C3: crossing rule. Every observation of a not-yet-counted track changes
\* the counters exactly as detect says for the history it leaves: nothing with
\* fewer than two positions, Entry iff prevY < lineY and currY >= lineY, Exit
\* iff prevY > lineY and currY <= lineY, nothing otherwise.
C3_CrossingRule ==
    \A e \in EventsOfLatestCall :
        ~e.was_counted => Outcome(e) = Detect(e.hist, e.line_y)

\* a track lands exactly on the line from above it in the frame and is
\* counted as an Entry
C3_Witness ==
    \E e \in EventsOfLatestCall :
        /\ ~e.was_counted
        /\ Len(e.hist) >= 2
        /\ e.hist[Len(e.hist) - 1][2] < e.line_y
        /\ e.hist[Len(e.hist)][2] = e.line_y
        /\ e.d_entry = 1

\* C4: history bounding. Every history has at most TRACK_HISTORY_LENGTH
\* positions and, after n observations of the track, is exactly the last
\* min(n, TRACK_HISTORY_LENGTH) recorded positions in arrival order.
C4_HistoryBounded ==
    \A t \in TrackIds :
        /\ Len(track_history[t]) <= TRACK_HISTORY_LENGTH
        /\ track_history[t] =
               LastN(log[t], Min(Len(log[t]), TRACK_HISTORY_LENGTH))

\* a track has been observed TRACK_HISTORY_LENGTH + 5 times
C4_Witness ==
    \E t \in TrackIds :
        /\ Len(log[t]) = TRACK_HISTORY_LENGTH + 5
        /\ Len(track_history[t]) = TRACK_HISTORY_LENGTH

\* C5: counted_ids holds exactly the tracks of which some observation moved
\* from the previously recorded y to the newly recorded y across the line
\* of that call (Entry or Exit condition), and it never loses an id.
C5_CountedSet ==
    /\ [](counted_ids = {t \in TrackIds : crossed[t]})
    /\ [][counted_ids \subseteq counted_ids']_vars

\* one track is counted while another, seen moving, never crossed
C5_Witness ==
    \E t, u \in TrackIds :
        /\ t \in counted_ids
        /\ u \notin counted_ids
        /\ Len(log[u]) >= 2

\* C6 as stated: the counting line of a call is round(f * frameHeight)
C6_LineIsRounded ==
    (frame_count > 0 /\ InOpenUnit(line_position) /\ frame_height > 0) =>
        counting_line_y =
            RoundNearest(frame_height * line_position.num, line_position.den)

\* C6: for a line fraction f in (0,1) and a positive frame height, the
\* counting line of every call is f * frameHeight rounded down to an
\* integer, computed from the frame height of that very call, and it is the
\* line every observation of the call is compared with.
C6_LineIsTruncated ==
    (frame_count > 0 /\ InOpenUnit(line_position) /\ frame_height > 0) =>
        /\ counting_line_y * line_position.den
               <= frame_height * line_position.num
        /\ frame_height * line_position.num
               < (counting_line_y + 1) * line_position.den
        /\ \A e \in EventsOfLatestCall : e.line_y = counting_line_y

\* an observation is compared with the line of a product that is no integer
C6_Witness ==
    /\ InOpenUnit(line_position)
    /\ frame_height > 0
    /\ events # <<>>
    /\ counting_line_y * line_position.den # frame_height * line_position.num

\* C7: fail fast. A line fraction outside (0,1) or a frame height of zero
\* is refused before any counting: no observation is compared with a line
\* outside the frame (lineY <= 0 or lineY >= frameHeight), and under such a
\* configuration no observation changes a counter.
C7_FailFast ==
    \A e \in EventsOfLatestCall :
        /\ (Len(e.hist) >= 2 /\ ~e.was_counted) =>
               (0 < e.line_y /\ e.line_y < frame_height)
        /\ (~InOpenUnit(line_position) \/ frame_height = 0) =>
               (e.d_entry = 0 /\ e.d_exit = 0)

\* C8: order independence. A call whose detections carry pairwise distinct
\* track ids leaves the same histories, counted_ids and counters as it would
\* have with the detections in the other order, and an observation of one
\* track leaves every other track's history and counted status alone.
C8_OrderIndependent ==
    /\ (\A i, j \in 1 .. Len(detections) :
            i # j => detections[i].track_id # detections[j].track_id) =>
           reordered = Self
    /\ \A e \in EventsOfLatestCall : e.untouched

Observation(detection) ==
    [track_id |-> detection.track_id, centroid |-> detection.centroid]

RECURSIVE Observations(_)
Observations(evs) ==
    IF evs = <<>> THEN <<>>
    ELSE <<Observation(Head(evs))>> \o Observations(Tail(evs))

\* C9: failure isolation. Every well-formed detection of a call is recorded
\* and evaluated, whether or not a malformed one is listed before it.
C9_FailureIsolated ==
    Observations(events) = Observations(SelectSeq(detections, WellFormed))

RECURSIVE SumCounts(_)
SumCounts(evs) ==
    IF evs = <<>> THEN 0
    ELSE Head(evs).d_entry + Head(evs).d_exit + SumCounts(Tail(evs))

\* C10: counter / set consistency. entry_count + exit_count is the size of
\* counted_ids; one observation increments at most one counter, by one; a
\* call raises entry_count + exit_count by at most the number of distinct
\* track ids among its detections that were not yet counted; a call with no
\* detections changes no history, counted_ids or counter.
C10_Consistent ==
    /\ [](/\ entry_count + exit_count = Cardinality(counted_ids)
          /\ \A e \in EventsOfLatestCall :
                 /\ e.d_entry \in {0, 1} /\ e.d_exit \in {0, 1}
                 /\ e.d_entry + e.d_exit <= 1)
    /\ [][/\ (entry_count' + exit_count') - (entry_count + exit_count)
                 <= Cardinality({detections'[i].track_id :
                                     i \in 1 .. Len(detections')} \ counted_ids)
          /\ detections' = <<>> =>
                 UNCHANGED <<track_history, counted_ids, entry_count, exit_count>>
         ]_vars

\* one call counts two tracks, one entering and one leaving
C10_Witness ==
    /\ Len(events) = 2
    /\ events[1].track_id # events[2].track_id
    /\ SumCounts(events) = 2
    /\ entry_count >= 1 /\ exit_count >= 1

====
